---- MODULE Spec2Model ----
(***************************************************************************)
(* The scheduled-post pipeline of tanjim-shah/tumb-au-clean:               *)
(*   generate_tumblr_posts.py          appends entries to the queue file   *)
(*   post_to_tumblr.py                 OAuth 1.0a publisher   ("oauth1")   *)
(*   post_to_tumblr_oauth2.py          OAuth 2.0 publisher    ("oauth2")   *)
(*   post_to_tumblr_oauth2_improved.py OAuth 2.0 publisher    ("improved") *)
(*   oauth2_auth_helper.py             writes the token file by hand       *)
(*                                                                         *)
(* Files are state variables (queue file, audit log file, token file); a   *)
(* publishing run is a process whose position is run[r].pc, and every      *)
(* step of it performs at most one HTTP exchange, whose response is chosen *)
(* by the environment.                                                     *)
(*                                                                         *)
(* Time is counted in hours: datetime.now() is the variable now, a         *)
(* timedelta(hours=1) is 1, and expires_in = 3600 seconds is 1.            *)
(* strftime("%Y-%m-%d %H:%M:%S") of a time t is the one-element sequence   *)
(* <<t>> and the empty CSV cell '' of a time column is <<>>.               *)
(* A JSON object / Python dict is a function whose DOMAIN is its key set.  *)
(***************************************************************************)
EXTENDS Integers, Sequences, FiniteSets, TLC

\* ---------------------------------------------------------------- bounds
\* Largest clock value.
MaxTime == 1
\* Largest number of rows of the queue file.
MaxQueue == 2
\* Largest number of rows of the audit log file.
MaxLog == 2
\* Largest number of characters of a text field of a queue row.
MaxFieldLen == 2
\* Largest number of tags of a post.
MaxTags == 2
\* Largest number of request parameters given to a signing routine.
MaxParams == 2

\* ------------------------------------------------------ program constants
\* timedelta(hours=1): safety margin of a stored token.
OneHour == 1
\* token_data.get('expires_in', 3600): 3600 seconds.
DefaultExpiresIn == 1
\* timedelta(hours=1 + (i-1) * 3): first post one hour after generation.
FirstDelay == 1
\* timedelta(hours=1 + (i-1) * 3): posts three hours apart.
ScheduleGap == 3
\* token_data.get('expires_at', '2000-01-01'): a date before every clock value.
Year2000 == -1

\* Python None, and JSON null.
None == "None"

\* dict.get(k, default)
Get(d, k, default) == IF k \in DOMAIN d THEN d[k] ELSE default

\* datetime.strftime("%Y-%m-%d %H:%M:%S")
strftime(t) == <<t>>

\* datetime.isoformat()
isoformat(t) == <<t>>

\* datetime.fromisoformat(s)
fromisoformat(s) == s[1]

\* datetime.strptime(s, "%Y-%m-%d %H:%M:%S") succeeds
ParsesAsTime(s) == Len(s) = 1

\* datetime.strptime(s, "%Y-%m-%d %H:%M:%S")
strptime(s) == s[1]

\* str.lower() on the values of the posted column
lower(s) == CASE s = "True" -> "true" [] s = "False" -> "false" [] OTHER -> s

Last(s) == s[Len(s)]

Runners == {1, 2}

Variants == {"oauth1", "oauth2", "improved"}

VARIABLES
    now,        \* the wall clock, datetime.now()
    queue,      \* rows of data/pending_posts.csv
    log,        \* rows of data/posted_logs.csv
    tokenFile,  \* data/tumblr_token.json: [exists, data]
    run,        \* run[r]: the publishing run r (a process of one of the scripts)
    call        \* a call of one of the pure routines: its arguments and results

vars == <<now, queue, log, tokenFile, run, call>>

\* No pure routine is under examination.
NoCall == [op |-> "none"]

NoFile == [exists |-> FALSE]

File(d) == [exists |-> TRUE, data |-> d]

IdleRun ==
    [pc |-> "idle", variant |-> "oauth1", auth_code |-> FALSE,
     access_token |-> None, refresh_arg |-> None,
     pending_posts |-> <<>>, posts_to_publish |-> <<>>, i |-> 0,
     current_time |-> 0, status |-> 0,
     post_details |-> <<>>, reported |-> FALSE,
     \* history of the run, read by no action: the rows as loaded, the HTTP
     \* exchanges of the token phase or of the row last sent, the length of
     \* the audit log at the start, the writes of the queue file
     loaded |-> <<>>, sent |-> <<>>, log_start |-> 0, writes |-> 0]

Init ==
    /\ now = 0
    /\ queue = <<>>
    /\ log = <<>>
    /\ tokenFile = NoFile
    /\ run = [r \in Runners |-> IdleRun]
    /\ call = NoCall

\* ------------------------------------------------------------ environment
\* Time passes.
Tick ==
    /\ now < MaxTime
    /\ now' = now + 1
    /\ UNCHANGED <<call, queue, log, tokenFile, run>>

\* The row save_to_pending_posts writes for the i-th post of a batch at time t.
NewRow(t, i) ==
    [id |-> <<strftime(t), i>>,
     scheduled_time |-> strftime(t + FirstDelay + (i - 1) * ScheduleGap),
     posted |-> "False",
     posted_time |-> <<>>,
     tumblr_post_id |-> ""]

\* save_to_pending_posts(posts) with n posts, appended to the queue file.
save_to_pending_posts(rows, t, n) == rows \o [i \in 1..n |-> NewRow(t, i)]

\* A generation run that generated n posts, the queue file holding at most
\* room rows afterwards.
Generate(room) ==
    \E n \in 1..room :
        /\ Len(queue) + n <= room
        /\ queue' = save_to_pending_posts(queue, now, n)
        /\ UNCHANGED <<call, now, log, tokenFile, run>>

\* Access tokens the token endpoint issues.
AccessTokens == {"at1", "at2"}

\* Refresh tokens the token endpoint issues.
RefreshTokens == {"rt1"}

\* expires_in values the token endpoint sends, in hours.
ExpiresIn == {0, 2}

\* Bodies of a 200 answer of the token endpoint: access_token always,
\* refresh_token and expires_in optional.
TokenBodies ==
    {[access_token |-> a] : a \in AccessTokens}
    \cup {[access_token |-> a, refresh_token |-> f] :
            a \in AccessTokens, f \in RefreshTokens}
    \cup {[access_token |-> a, expires_in |-> e] :
            a \in AccessTokens, e \in ExpiresIn}
    \cup {[access_token |-> a, refresh_token |-> f, expires_in |-> e] :
            a \in AccessTokens, f \in RefreshTokens, e \in ExpiresIn}

\* Answers of the token endpoint: 200 with a body, a failure status, or
\* requests.post raising (status 0).
TokenResponses ==
    {[status |-> 200, json |-> b] : b \in TokenBodies}
    \cup {[status |-> 400], [status |-> 0]}

\* oauth2_auth_helper.py main: a successful code exchange, the raw response
\* body dumped to the token file (no expires_at), while no run is active.
AuthHelper ==
    /\ \A r \in Runners : run[r].pc = "idle"
    /\ \E b \in TokenBodies : tokenFile' = File(b)
    /\ UNCHANGED <<call, now, queue, log, run>>

\* ------------------------------------------------------- token lifecycle
\* refresh_access_token storing only the refresh token of the response.
refresh_access_token_not_carrying(file, refresh_token, t, resp) ==
    IF resp.status = 200
    THEN LET token_data == resp.json
             expires_in == Get(token_data, "expires_in", DefaultExpiresIn)
             token_info ==
                 [access_token |-> token_data.access_token,
                  refresh_token |-> Get(token_data, "refresh_token", None),
                  expires_at |-> isoformat(t + expires_in),
                  expires_in |-> expires_in]
         IN  [token |-> token_data.access_token, file |-> File(token_info)]
    ELSE [token |-> None, file |-> file]

\* exchange_code_for_token removing the stored record when the exchange fails.
exchange_code_for_token_clearing(file, t, resp) ==
    IF resp.status = 200
    THEN LET token_data == resp.json
             expires_in == Get(token_data, "expires_in", DefaultExpiresIn)
             token_info ==
                 [access_token |-> token_data.access_token,
                  refresh_token |-> Get(token_data, "refresh_token", None),
                  expires_at |-> isoformat(t + expires_in),
                  expires_in |-> expires_in]
         IN  [token |-> token_data.access_token, file |-> File(token_info)]
    ELSE [token |-> None, file |-> NoFile]

\* StoredTokenValid asking for two hours of remaining life.
StoredTokenValidTwoHours(file, t) ==
    /\ file.exists
    /\ fromisoformat(Get(file.data, "expires_at", isoformat(Year2000)))
         > t + 2 * OneHour

\* exchange_code_for_token returning the new token without saving it.
exchange_code_for_token_not_saving(file, t, resp) ==
    IF resp.status = 200
    THEN [token |-> resp.json.access_token, file |-> file]
    ELSE [token |-> None, file |-> file]

\* refresh_access_token(refresh_token) at time t, the endpoint answering resp:
\* the token returned and the token file afterwards.  (The improved script
\* adds a refreshed_at key to token_info, which nothing reads.)
refresh_access_token(file, refresh_token, t, resp) ==
    IF resp.status = 200
    THEN LET token_data == resp.json
             expires_in == Get(token_data, "expires_in", DefaultExpiresIn)
             expires_at == t + expires_in
             token_info ==
                 [access_token |-> token_data.access_token,
                  refresh_token |-> Get(token_data, "refresh_token", refresh_token),
                  expires_at |-> isoformat(expires_at),
                  expires_in |-> expires_in]
         IN  [token |-> token_data.access_token, file |-> File(token_info)]
    ELSE [token |-> None, file |-> file]

\* exchange_code_for_token(authorization_code) at time t, the endpoint
\* answering resp: the token returned and the token file afterwards.  (The
\* improved script adds a created_at key to token_info, which nothing reads.)
exchange_code_for_token(file, t, resp) ==
    IF resp.status = 200
    THEN LET token_data == resp.json
             expires_in == Get(token_data, "expires_in", DefaultExpiresIn)
             expires_at == t + expires_in
             token_info ==
                 [access_token |-> token_data.access_token,
                  refresh_token |-> Get(token_data, "refresh_token", None),
                  expires_at |-> isoformat(expires_at),
                  expires_in |-> expires_in]
         IN  [token |-> token_data.access_token, file |-> File(token_info)]
    ELSE [token |-> None, file |-> file]

\* get_access_token: the stored token has more than one hour left.
StoredTokenValid(file, t) ==
    /\ file.exists
    /\ fromisoformat(Get(file.data, "expires_at", isoformat(Year2000))) > t + OneHour

\* get_access_token: the stored record carries a refresh_token key.
HasRefreshToken(file) == file.exists /\ "refresh_token" \in DOMAIN file.data

\* The locals of get_access_token and of main's token check are gone once
\* the token phase is over.
EndTokenPhase(rn, pc) ==
    IF pc \in {"ctor_refresh", "exchange"} THEN [rn EXCEPT !.pc = pc]
    ELSE [rn EXCEPT !.pc = pc, !.auth_code = FALSE, !.refresh_arg = None]

\* Where a run goes once it holds an access token: the improved script tests
\* the connection first.
HaveTokenNext(variant) == IF variant = "improved" THEN "test" ELSE "load"

\* Where a run goes without a stored or refreshed token: the authorization
\* code of the environment is exchanged, or the run returns.
NoTokenNext(auth_code) == IF auth_code THEN "exchange" ELSE "done"

\* One HTTP exchange, as remembered in the history of a run.
Exchange(kind, idx, arg, status) ==
    [kind |-> kind, idx |-> idx, arg |-> arg, status |-> status]

\* One request to the token endpoint, remembered with the body of a 200 answer.
TokenExchange(kind, idx, arg, resp) ==
    [kind |-> kind, idx |-> idx, arg |-> arg, status |-> resp.status,
     body |-> IF resp.status = 200 THEN resp.json ELSE None]

\* ------------------------------------------------------ a publishing run
\* TumblrPoster() / TumblrOAuth2Poster(): a run of one of the three scripts
\* starts, with or without TUMBLR_AUTH_CODE in its environment.  The other
\* credentials of the environment are configured.
Start(r) ==
    /\ run[r].pc = "idle"
    /\ \E v \in Variants, code \in BOOLEAN :
        run' = [run EXCEPT ![r] =
                  [IdleRun EXCEPT !.pc = IF v = "oauth1" THEN "load" ELSE "ctor",
                                  !.variant = v,
                                  !.auth_code = (v # "oauth1" /\ code),
                                  !.log_start = Len(log)]]
    /\ UNCHANGED <<call, now, queue, log, tokenFile>>

\* GetAccessToken looking for a refresh token before the stored token.
GetAccessTokenRefreshFirst(r) ==
    /\ run[r].pc = "ctor"
    /\ run' = [run EXCEPT ![r] =
         IF HasRefreshToken(tokenFile)
         THEN [@ EXCEPT !.refresh_arg = tokenFile.data.refresh_token,
                        !.pc = "ctor_refresh"]
         ELSE IF StoredTokenValid(tokenFile, now)
         THEN EndTokenPhase([@ EXCEPT !.access_token = tokenFile.data.access_token],
                            HaveTokenNext(@.variant))
         ELSE EndTokenPhase(@, NoTokenNext(@.auth_code))]
    /\ UNCHANGED <<call, now, queue, log, tokenFile>>

\* get_access_token up to its first request: the stored token is returned,
\* or a refresh is called for, or there is no stored credential.
GetAccessToken(r) ==
    /\ run[r].pc = "ctor"
    /\ run' = [run EXCEPT ![r] =
         IF StoredTokenValid(tokenFile, now)
         THEN EndTokenPhase([@ EXCEPT !.access_token = tokenFile.data.access_token],
                            HaveTokenNext(@.variant))
         ELSE IF HasRefreshToken(tokenFile)
         THEN [@ EXCEPT !.refresh_arg = tokenFile.data.refresh_token,
                        !.pc = "ctor_refresh"]
         ELSE EndTokenPhase(@, NoTokenNext(@.auth_code))]
    /\ UNCHANGED <<call, now, queue, log, tokenFile>>

\* get_access_token: refresh_access_token(token_data['refresh_token']) and
\* what follows its return (main's check of the token in the oauth2 script,
\* the authorization code branch in the improved one).
CtorRefresh(r, endpoint) ==
    /\ run[r].pc = "ctor_refresh"
    /\ \E resp \in endpoint :
        LET res == refresh_access_token(tokenFile, run[r].refresh_arg, now, resp)
        IN  /\ tokenFile' = res.file
            /\ run' = [run EXCEPT ![r] =
                 EndTokenPhase(
                   [@ EXCEPT !.access_token = res.token,
                             !.sent = Append(@, TokenExchange("refresh", 0,
                                               run[r].refresh_arg, resp))],
                   IF res.token # None THEN HaveTokenNext(@.variant)
                   ELSE NoTokenNext(@.auth_code))]
    /\ UNCHANGED <<call, now, queue, log>>

\* exchange_code_for_token(auth_code) and the check of its result.
ExchangeCode(r, endpoint) ==
    /\ run[r].pc = "exchange"
    /\ \E resp \in endpoint :
        LET res == exchange_code_for_token(tokenFile, now, resp)
        IN  /\ tokenFile' = res.file
            /\ run' = [run EXCEPT ![r] =
                 EndTokenPhase(
                   [@ EXCEPT !.access_token = res.token,
                             !.sent = Append(@, TokenExchange("exchange", 0, None,
                                                              resp))],
                   IF res.token # None THEN HaveTokenNext(@.variant) ELSE "done")]
    /\ UNCHANGED <<call, now, queue, log>>

\* test_api_connection (improved script): the run goes on only on a 200.
TestApiConnection(r) ==
    /\ run[r].pc = "test"
    /\ \E status \in {200, 401} :
        run' = [run EXCEPT ![r] =
                 [@ EXCEPT !.sent = Append(@, Exchange("test", 0, None, status)),
                           !.pc = IF status = 200 THEN "load" ELSE "done"]]
    /\ UNCHANGED <<call, now, queue, log, tokenFile>>

\* IsDue without the test of the posted column.
IsDueIgnoringPosted(post, t) ==
    /\ ParsesAsTime(post.scheduled_time)
    /\ strptime(post.scheduled_time) <= t

\* IsDue without the test of the scheduled time.
IsDueIgnoringSchedule(post, t) ==
    lower(Get(post, "posted", "False")) = "false"

\* main: the test a row passes to be published at time t.
IsDue(post, t) ==
    /\ lower(Get(post, "posted", "False")) = "false"
    /\ ParsesAsTime(post.scheduled_time)
    /\ strptime(post.scheduled_time) <= t

\* SelectDue collecting the due rows last to first.
RECURSIVE SelectDueReversed(_, _, _)
SelectDueReversed(posts, t, k) ==
    IF k > Len(posts) THEN <<>>
    ELSE SelectDueReversed(posts, t, k + 1)
         \o (IF IsDue(posts[k], t) THEN <<k>> ELSE <<>>)

\* SelectDue leaving out the rows that were attempted before: the rows with
\* an audit row.
SelectDueUntried(posts, t, k) ==
    SelectSeq([j \in 1..Len(posts) |-> j],
              LAMBDA j : /\ j >= k
                         /\ IsDue(posts[j], t)
                         /\ \A n \in 1..Len(log) : log[n].id # posts[j].id)

\* main: the loop over pending_posts that fills posts_to_publish, from row k
\* on.  posts_to_publish holds the selected rows themselves (the same dict
\* objects as pending_posts): here their positions in pending_posts.
RECURSIVE SelectDue(_, _, _)
SelectDue(posts, t, k) ==
    IF k > Len(posts) THEN <<>>
    ELSE (IF IsDue(posts[k], t) THEN <<k>> ELSE <<>>) \o SelectDue(posts, t, k + 1)

\* main: datetime.strptime raises ValueError on the scheduled_time of a
\* pending row; only the improved script catches it and goes on.
SelectionRaises(variant, posts) ==
    /\ variant # "improved"
    /\ \E k \in 1..Len(posts) :
        /\ lower(Get(posts[k], "posted", "False")) = "false"
        /\ ~ParsesAsTime(posts[k].scheduled_time)

\* main: read_pending_posts, current_time, the selection, and the two early
\* returns (no rows, no due row); a ValueError of the selection that nothing
\* catches ends the run.
LoadSelect(r) ==
    /\ run[r].pc = "load"
    /\ LET posts == queue
           raises == SelectionRaises(run[r].variant, posts)
           sel == IF raises THEN <<>> ELSE SelectDue(posts, now, 1)
       IN  /\ Len(log) + Len(sel) <= MaxLog
           /\ run' = [run EXCEPT ![r] =
                [@ EXCEPT !.pending_posts = posts,
                          !.loaded = posts,
                          !.current_time = now,
                          !.posts_to_publish = sel,
                          !.i = 1,
                          !.pc = IF raises THEN "aborted"
                                 ELSE IF posts = <<>> \/ sel = <<>> THEN "done"
                                 ELSE "post"]]
    /\ UNCHANGED <<call, now, queue, log, tokenFile>>

\* Post ids the platform issues.
PostIds == {"12345"}

\* Bodies of a 201 answer of the platform: with the id of the new post, or
\* without one.
CreatedBodies ==
    {[response |-> [id |-> p]] : p \in PostIds}
    \cup {[response |-> [state |-> "published"]]}

\* Answers of the platform to a publish request: 201 with a body, another
\* success status, an authorization failure, a server failure, or
\* requests.post raising (status 0).
PublishResponses ==
    {[status |-> st, json |-> b] : st \in {200, 201}, b \in CreatedBodies}
    \cup {[status |-> 401], [status |-> 500], [status |-> 0]}

\* Created taking every 2xx status for a success.
CreatedOnAnySuccess(resp) == resp.status \in {200, 201}

\* post_to_tumblr: the request succeeded.
Created(resp) == resp.status = 201

\* post_to_tumblr: result.get('response', {}).get('id', '')
CreatedId(resp) == Get(Get(resp.json, "response", <<>>), "id", "")

\* post_to_tumblr: the answer starts the refresh-and-retry path.
Unauthorized(variant, resp) == variant # "oauth1" /\ resp.status = 401

\* post_to_tumblr: the error returned for a failed request, str(e) when
\* requests.post raised.
ErrorText(status) == IF status = 0 THEN <<"Exception">> ELSE <<"API Error", status>>

\* main: the row of a post published at time t with the id returned.
MarkPosted(post, t, tumblr_post_id) ==
    [post EXCEPT !.posted = "True",
                 !.posted_time = strftime(t),
                 !.tumblr_post_id = tumblr_post_id]

\* log_posted_content(post_data, success, tumblr_post_id, error): the row
\* appended to the audit log (columns id, scheduled_time, success,
\* tumblr_post_id, error).
LogRow(post_data, success, tumblr_post_id, error) ==
    [id |-> post_data.id,
     scheduled_time |-> post_data.scheduled_time,
     success |-> success,
     tumblr_post_id |-> tumblr_post_id,
     error |-> error]

\* main: the rows in memory after post_to_tumblr returned (success, result)
\* for the row at position idx.
Recorded(posts, idx, success, result, t) ==
    IF success THEN [posts EXCEPT ![idx] = MarkPosted(posts[idx], t, result)]
    ELSE posts

\* main: the audit row appended after post_to_tumblr returned
\* (success, result) for post.
Logged(post, success, result) ==
    IF success THEN LogRow(post, TRUE, result, <<>>)
    ELSE LogRow(post, FALSE, "", result)

\* log_posted_content opening the audit log for writing instead of appending.
log_posted_content_rewriting(file, row) == <<row>>

\* log_posted_content: the audit log file after the row is written, the file
\* opened in append mode.
log_posted_content(file, row) == Append(file, row)

\* main: the entry of post_details for the row at position idx (the position
\* standing for its url).
Detail(idx, success) ==
    [url |-> idx, status |-> IF success THEN "Success" ELSE "Failed"]

\* Finish leaving the loop at the first failed row.
FinishStopsOnFailure(r, rn, success, result) ==
    LET idx == rn.posts_to_publish[rn.i]
        posts == Recorded(rn.pending_posts, idx, success, result, now)
    IN  /\ log' = log_posted_content(log, Logged(posts[idx], success, result))
        /\ run' = [run EXCEPT ![r] =
             [rn EXCEPT !.pending_posts = posts,
                        !.post_details = Append(@, Detail(idx, success)),
                        !.i = rn.i + 1,
                        !.pc = IF success /\ rn.i < Len(rn.posts_to_publish)
                               THEN "post" ELSE "save"]]

\* main: the rest of the loop body once post_to_tumblr returned
\* (success, result) for the current row, rn being the run after the
\* request: the row is marked or left, the audit row is appended, and the
\* loop moves on to the next selected row or to the final save.
Finish(r, rn, success, result) ==
    LET idx == rn.posts_to_publish[rn.i]
        posts == Recorded(rn.pending_posts, idx, success, result, now)
    IN  /\ log' = log_posted_content(log, Logged(posts[idx], success, result))
        /\ run' = [run EXCEPT ![r] =
             [rn EXCEPT !.pending_posts = posts,
                        !.post_details = Append(@, Detail(idx, success)),
                        !.i = rn.i + 1,
                        !.pc = IF rn.i < Len(rn.posts_to_publish)
                               THEN "post" ELSE "save"]]

\* post_to_tumblr: the first request for the current row.
Post(r, platform) ==
    /\ run[r].pc = "post"
    /\ \E resp \in platform :
        LET idx == run[r].posts_to_publish[run[r].i]
            rn == [run[r] EXCEPT
                     !.sent = <<Exchange("publish", idx, None, resp.status)>>,
                     !.status = resp.status]
        IN  IF Created(resp) THEN Finish(r, rn, TRUE, CreatedId(resp))
            ELSE IF Unauthorized(run[r].variant, resp)
            THEN /\ run' = [run EXCEPT ![r] = [rn EXCEPT !.pc = "refresh401"]]
                 /\ log' = log
            ELSE Finish(r, rn, FALSE, ErrorText(resp.status))
    /\ UNCHANGED <<call, now, queue, tokenFile>>

\* Refresh401 logging the rejected first attempt before the retry.
Refresh401LogsRejected(r, endpoint) ==
    /\ run[r].pc = "refresh401"
    /\ \E resp \in endpoint :
        LET arg == tokenFile.data.refresh_token
            res == refresh_access_token(tokenFile, arg, now, resp)
            idx == run[r].posts_to_publish[run[r].i]
            rn == [run[r] EXCEPT
                     !.sent = Append(@, TokenExchange("refresh", idx, arg, resp))]
        IN  /\ tokenFile' = res.file
            /\ IF res.token # None
               THEN /\ run' = [run EXCEPT ![r] =
                            [rn EXCEPT !.access_token = res.token, !.pc = "retry"]]
                    /\ log' = Append(log, Logged(run[r].pending_posts[idx], FALSE,
                                                 ErrorText(run[r].status)))
               ELSE Finish(r, rn, FALSE, ErrorText(run[r].status))
    /\ UNCHANGED <<call, now, queue>>

\* post_to_tumblr after a 401: the token file is read and, when it carries a
\* refresh_token key, refresh_access_token is called; a new token leads to
\* the retry, anything else returns the 401 as the error.
Refresh401(r, endpoint) ==
    /\ run[r].pc = "refresh401"
    /\ IF HasRefreshToken(tokenFile)
       THEN \E resp \in endpoint :
            LET arg == tokenFile.data.refresh_token
                res == refresh_access_token(tokenFile, arg, now, resp)
                rn == [run[r] EXCEPT
                         !.sent = Append(@, TokenExchange("refresh",
                                     run[r].posts_to_publish[run[r].i], arg,
                                     resp))]
            IN  /\ tokenFile' = res.file
                /\ IF res.token # None
                   THEN /\ run' = [run EXCEPT ![r] =
                                [rn EXCEPT !.access_token = res.token,
                                           !.pc = "retry"]]
                        /\ log' = log
                   ELSE Finish(r, rn, FALSE, ErrorText(run[r].status))
       ELSE /\ tokenFile' = tokenFile
            /\ Finish(r, run[r], FALSE, ErrorText(run[r].status))
    /\ UNCHANGED <<call, now, queue>>

\* Retry refreshing again when the retried request is rejected too.
RetryAgainOn401(r, platform) ==
    /\ run[r].pc = "retry"
    /\ \E resp \in platform :
        LET idx == run[r].posts_to_publish[run[r].i]
            rn == [run[r] EXCEPT
                     !.sent = Append(@, Exchange("publish", idx, None, resp.status)),
                     !.status = resp.status]
        IN  IF Created(resp) THEN Finish(r, rn, TRUE, CreatedId(resp))
            ELSE IF resp.status = 401
            THEN /\ run' = [run EXCEPT ![r] = [rn EXCEPT !.pc = "refresh401"]]
                 /\ log' = log
            ELSE Finish(r, rn, FALSE, ErrorText(resp.status))
    /\ UNCHANGED <<call, now, queue, tokenFile>>

\* post_to_tumblr: the one retry with the new token.
Retry(r, platform) ==
    /\ run[r].pc = "retry"
    /\ \E resp \in platform :
        LET idx == run[r].posts_to_publish[run[r].i]
            rn == [run[r] EXCEPT
                     !.sent = Append(@, Exchange("publish", idx, None, resp.status)),
                     !.status = resp.status]
        IN  IF Created(resp) THEN Finish(r, rn, TRUE, CreatedId(resp))
            ELSE Finish(r, rn, FALSE, ErrorText(resp.status))
    /\ UNCHANGED <<call, now, queue, tokenFile>>

\* update_pending_posts keeping the rows the file holds as posted.
update_pending_posts_merging(file, posts, ok) ==
    IF ok
    THEN [k \in 1..Len(posts) |->
            IF k <= Len(file) /\ file[k].posted = "True" THEN file[k] ELSE posts[k]]
    ELSE file

\* update_pending_posts writing only the rows that are still pending.
update_pending_posts_pending_only(file, posts, ok) ==
    IF ok THEN SelectSeq(posts, LAMBDA post : post.posted = "False") ELSE file

\* update_pending_posts(posts): the rows the queue file holds afterwards,
\* the write succeeding or open() raising.
update_pending_posts(file, posts, ok) == IF ok THEN posts ELSE file

\* main: the final update_pending_posts(pending_posts), and the report of
\* post_details sent to NOTIFICATION_EMAIL after it.
Save(r) ==
    /\ run[r].pc = "save"
    /\ \E ok \in BOOLEAN :
        /\ queue' = update_pending_posts(queue, run[r].pending_posts, ok)
        /\ run' = [run EXCEPT ![r] =
                    [@ EXCEPT !.writes = IF ok THEN @ + 1 ELSE @,
                              !.reported = TRUE,
                              !.pc = "done"]]
    /\ UNCHANGED <<call, now, log, tokenFile>>

\* The handler of a fatal error saving the rows in memory before the run ends.
fatal_error_saving(file, posts) == posts

\* An exception leaves main: the interpreter prints the traceback and exits
\* (the improved script catches it in main, prints it and mails it); the
\* queue file afterwards.
fatal_error(file, posts) == file

\* An error nothing catches (a missing column of the row, an interrupt of the
\* process) ends the run inside the loop over posts_to_publish.
Abort(r) ==
    /\ run[r].pc \in {"post", "refresh401", "retry"}
    /\ queue' = fatal_error(queue, run[r].pending_posts)
    /\ run' = [run EXCEPT ![r] = [@ EXCEPT !.pc = "aborted"]]
    /\ UNCHANGED <<call, now, log, tokenFile>>

\* The process of the run exits: nothing of it remains.
Exit(r) ==
    /\ run[r].pc \in {"done", "aborted"}
    /\ run' = [run EXCEPT ![r] = IdleRun]
    /\ UNCHANGED <<call, now, queue, log, tokenFile>>

\* One step of run r, the token endpoint and the platform answering from
\* the given sets.
RunStep(r, endpoint, platform) ==
    \/ Start(r)
    \/ GetAccessToken(r)
    \/ CtorRefresh(r, endpoint)
    \/ ExchangeCode(r, endpoint)
    \/ TestApiConnection(r)
    \/ LoadSelect(r)
    \/ Post(r, platform)
    \/ Refresh401(r, endpoint)
    \/ Retry(r, platform)
    \/ Save(r)
    \/ Exit(r)

\* The single runner of the sequential design.
SingleRunner == {1}

\* The token endpoint as the queue's specification sees it: one token body,
\* or a failure status.
PlainEndpoint ==
    {[status |-> 200,
      json |-> [access_token |-> "at1", refresh_token |-> "rt1", expires_in |-> 2]],
     [status |-> 400]}

\* The platform as the queue's specification sees it: a post created with or
\* without an id in the body, an authorization failure, a server failure, or
\* a transport error.
PlainPlatform == {resp \in PublishResponses : resp.status # 200}

\* No publishing run is active.
NoRun == \A r \in Runners : run[r].pc = "idle"

\* A generation run between two publishing runs.
GenerateBetweenRuns == NoRun /\ Generate(MaxQueue)

\* The sequential design: the clock, and generation runs and publishing runs
\* one after the other, each publishing run of any of the three scripts.
Next ==
    \/ Tick
    \/ GenerateBetweenRuns
    \/ \E r \in SingleRunner : RunStep(r, PlainEndpoint, PlainPlatform)

Spec == Init /\ [][Next]_vars

\* The platform as the token lifecycle's specification sees it: the post is
\* created, or the token is rejected.
TokenPlatform ==
    {resp \in PublishResponses :
        \/ resp.status = 401
        \/ (Created(resp) /\ CreatedId(resp) # "")}

\* The first generation run.
GenerateFirst == NoRun /\ queue = <<>> /\ Generate(MaxQueue)

\* The token lifecycle: the authorization helper, and publishing runs one
\* after the other against a token endpoint that answers with any body.
NextToken ==
    \/ Tick
    \/ GenerateFirst
    \/ AuthHelper
    \/ \E r \in SingleRunner : RunStep(r, TokenResponses, TokenPlatform)

SpecToken == Init /\ [][NextToken]_vars

\* A scheduled_time cell that strptime does not parse.
BadTime == <<"not", "a time">>

\* The queue file is edited by hand between two runs: the scheduled_time of
\* a pending row becomes text that is no time.
Corrupt ==
    /\ NoRun
    /\ \E k \in 1..Len(queue) :
        /\ queue[k].posted = "False"
        /\ queue[k].scheduled_time # BadTime
        /\ queue' = [queue EXCEPT ![k].scheduled_time = BadTime]
    /\ UNCHANGED <<call, now, log, tokenFile, run>>

\* The sequential design over a queue file that may hold malformed rows.
NextMalformed ==
    \/ Next
    \/ Corrupt

SpecMalformed == Init /\ [][NextMalformed]_vars

\* A generation run while a publishing run is active: the two scripts are
\* separate processes and nothing locks the queue file.
GenerateDuringRun == ~NoRun /\ Generate(MaxQueue)

\* Publishing runs one after the other, and generation runs at any time.
NextMidRun ==
    \/ Next
    \/ GenerateDuringRun

SpecMidRun == Init /\ [][NextMidRun]_vars

\* The sequential design against a platform that answers with any status.
NextStatus ==
    \/ Tick
    \/ GenerateBetweenRuns
    \/ \E r \in SingleRunner : RunStep(r, PlainEndpoint, PublishResponses)

SpecStatus == Init /\ [][NextStatus]_vars

\* The sequential design with runs that an uncaught error may end.
NextAbort ==
    \/ Next
    \/ \E r \in SingleRunner : Abort(r)

SpecAbort == Init /\ [][NextAbort]_vars

\* The platform as the concurrent runs see it: the post is created, or a
\* server failure.
TwoWayPlatform ==
    {resp \in PublishResponses :
        \/ resp.status = 500
        \/ (Created(resp) /\ CreatedId(resp) # "")}

\* A run of post_to_tumblr.py starts.
StartOAuth1(r) == Start(r) /\ run'[r].variant = "oauth1"

\* Two processes of post_to_tumblr.py at once on the same files, with
\* generation runs while neither is active.
NextConcurrent ==
    \/ Tick
    \/ GenerateBetweenRuns
    \/ \E r \in Runners :
        \/ StartOAuth1(r)
        \/ LoadSelect(r)
        \/ Post(r, TwoWayPlatform)
        \/ Save(r)
        \/ Exit(r)

SpecConcurrent == Init /\ [][NextConcurrent]_vars

\* The answers by which the platform accepts a publish request.
Accepting == {resp \in TwoWayPlatform : Created(resp)}

\* The platform accepts the publish request of run r for the row at
\* position k.
PostAccepted(r, k) ==
    /\ Post(r, Accepting)
    /\ run[r].posts_to_publish[run[r].i] = k

\* The audit log file is moved away while no run is writing to it:
\* log_posted_content starts a new file when it finds none.  (The file of the
\* model holds MaxLog rows; moving it away gives every run the room the real
\* file always has.)
ArchiveLog ==
    /\ \A r \in Runners : run[r].pc \in {"idle", "load"}
    /\ log # <<>>
    /\ log' = <<>>
    /\ run' = [r \in Runners |-> [run[r] EXCEPT !.log_start = 0]]
    /\ UNCHANGED <<call, now, queue, tokenFile>>

\* Runs of post_to_tumblr.py one after the other, with generation runs in
\* between.
NextRetry ==
    \/ Tick
    \/ GenerateBetweenRuns
    \/ ArchiveLog
    \/ \E r \in SingleRunner :
        \/ StartOAuth1(r)
        \/ LoadSelect(r)
        \/ Post(r, TwoWayPlatform)
        \/ Save(r)
        \/ Exit(r)

\* The scheduler keeps triggering runs, a run that has started goes on to
\* its end, and the platform does not reject the request for a row for ever.
FairRetry ==
    /\ WF_vars(ArchiveLog)
    /\ \A r \in SingleRunner :
         /\ WF_vars(StartOAuth1(r))
         /\ WF_vars(LoadSelect(r))
         /\ WF_vars(Post(r, TwoWayPlatform))
         /\ WF_vars(Save(r))
         /\ WF_vars(Exit(r))
         /\ \A k \in 1..MaxQueue : SF_vars(PostAccepted(r, k))

SpecRetry == Init /\ [][NextRetry]_vars /\ FairRetry

\* ------------------------------------------------- the queue file as text
\* Text is a sequence of characters; these stand for a letter, a space, a
\* comma, a carriage return, a line feed and a double quote.
FieldChars == {"a", "SP", "COMMA", "CR", "LF", "QUOTE"}

\* str.strip() removes these.
Whitespace == {"SP", "CR", "LF"}

\* Sequences over S of length at most n.
SeqUpTo(S, n) == UNION {[1..m -> S] : m \in 0..n}

\* Values of post_content.
Contents == SeqUpTo(FieldChars, MaxFieldLen)

\* Tags: plain words, words with a space in front, behind or inside, the
\* empty tag, and a tag with a comma.
Tags ==
    {<<"a">>, <<"b">>, <<>>, <<"SP", "a">>, <<"a", "SP">>, <<"a", "SP", "b">>,
     <<"a", "COMMA", "b">>}

\* Tag lists of a post.
TagLists == SeqUpTo(Tags, MaxTags)

\* ','.join(tags)
RECURSIVE join(_)
join(tags) ==
    IF tags = <<>> THEN <<>>
    ELSE IF Len(tags) = 1 THEN tags[1]
    ELSE tags[1] \o <<"COMMA">> \o join(Tail(tags))

\* str.split(',')
RECURSIVE split(_)
split(s) ==
    IF \A k \in 1..Len(s) : s[k] # "COMMA" THEN <<s>>
    ELSE LET k == CHOOSE j \in 1..Len(s) :
                    s[j] = "COMMA" /\ \A m \in 1..(j - 1) : s[m] # "COMMA"
         IN  <<SubSeq(s, 1, k - 1)>> \o split(SubSeq(s, k + 1, Len(s)))

\* str.strip()
RECURSIVE strip(_)
strip(s) ==
    IF s = <<>> THEN s
    ELSE IF s[1] \in Whitespace THEN strip(Tail(s))
    ELSE IF s[Len(s)] \in Whitespace THEN strip(SubSeq(s, 1, Len(s) - 1))
    ELSE s

\* csv.writer: the quote character doubled inside a quoted field.
RECURSIVE DoubleQuotes(_)
DoubleQuotes(s) ==
    IF s = <<>> THEN s
    ELSE (IF s[1] = "QUOTE" THEN <<"QUOTE", "QUOTE">> ELSE <<s[1]>>)
         \o DoubleQuotes(Tail(s))

\* csv.writer (QUOTE_MINIMAL): a field with a delimiter, a quote or a
\* character of the line terminator is written in quotes; the file is opened
\* with newline='', so the text reaches the file as it is.
csv_write_field(s) ==
    IF \E k \in 1..Len(s) : s[k] \in {"COMMA", "QUOTE", "CR", "LF"}
    THEN <<"QUOTE">> \o DoubleQuotes(s) \o <<"QUOTE">>
    ELSE s

\* open(PENDING_POSTS_FILE, 'r') without newline='': on reading, '\r\n' and
\* '\r' become '\n'.
RECURSIVE universal_newlines(_)
universal_newlines(s) ==
    IF s = <<>> THEN s
    ELSE IF s[1] = "CR"
    THEN <<"LF">> \o universal_newlines(
             IF Len(s) > 1 /\ s[2] = "LF" THEN Tail(Tail(s)) ELSE Tail(s))
    ELSE <<s[1]>> \o universal_newlines(Tail(s))

\* csv.reader: doubled quotes inside a quoted field become one.
RECURSIVE UndoubleQuotes(_)
UndoubleQuotes(s) ==
    IF s = <<>> THEN s
    ELSE IF s[1] = "QUOTE" /\ Len(s) > 1 /\ s[2] = "QUOTE"
    THEN <<"QUOTE">> \o UndoubleQuotes(Tail(Tail(s)))
    ELSE <<s[1]>> \o UndoubleQuotes(Tail(s))

\* csv.DictReader: the value of a field of the text read.
csv_read_field(s) ==
    IF s # <<>> /\ s[1] = "QUOTE"
    THEN UndoubleQuotes(SubSeq(s, 2, Len(s) - 1))
    ELSE s

\* main: the tags of a row read from the queue file; the improved script
\* drops the tags that are empty after stripping.
parse_tags(variant, text) ==
    LET tags == IF text # <<>> THEN split(text) ELSE <<>>
        stripped == [k \in 1..Len(tags) |-> strip(tags[k])]
    IN  IF variant = "improved" THEN SelectSeq(stripped, LAMBDA t : t # <<>>)
        ELSE stripped

\* A post is handed to save_to_pending_posts.
InitRoundTrip ==
    /\ now = 0
    /\ queue = <<>>
    /\ log = <<>>
    /\ tokenFile = NoFile
    /\ run = [r \in Runners |-> IdleRun]
    /\ \E c \in Contents, t \in TagLists :
         call = [op |-> "save", post_content |-> c, tags |-> t]

\* save_to_pending_posts: the text of the post_content and tags cells of the
\* row written.
WriteRow ==
    /\ call.op = "save"
    /\ call' = [call EXCEPT !.op = "saved"] @@
               [file |-> [post_content |-> csv_write_field(call.post_content),
                          tags |-> csv_write_field(join(call.tags))]]
    /\ UNCHANGED <<now, queue, log, tokenFile, run>>

\* read_pending_posts and main of one of the publishers: the row read back,
\* and the tags parsed from it.
ReadRow ==
    /\ call.op = "saved"
    /\ \E v \in Variants :
        LET row == [f \in {"post_content", "tags"} |->
                      csv_read_field(universal_newlines(call.file[f]))]
        IN  call' = [call EXCEPT !.op = "read"] @@
                    [variant |-> v, row |-> row,
                     parsed |-> parse_tags(v, row.tags)]
    /\ UNCHANGED <<now, queue, log, tokenFile, run>>

NextRoundTrip == WriteRow \/ ReadRow

SpecRoundTrip == InitRoundTrip /\ [][NextRoundTrip]_vars

\* The elements of a sequence.
Range(seq) == {seq[k] : k \in 1..Len(seq)}

\* ------------------------------------------------- the OAuth 1.0a signature
\* A dict is the sequence of its (key, value) items in insertion order.  Text
\* is a sequence of characters; a key, or a word of letters and digits,
\* counts as one character that quote leaves alone.

\* Characters quote may have to escape.
Reserved == {"/", ":", "&", "=", "%", "SP"}

\* The percent-escape of a reserved character.
PercentCode(c) ==
    CASE c = "/" -> <<"%", "2", "F">>
      [] c = ":" -> <<"%", "3", "A">>
      [] c = "&" -> <<"%", "2", "6">>
      [] c = "=" -> <<"%", "3", "D">>
      [] c = "%" -> <<"%", "2", "5">>
      [] c = "SP" -> <<"%", "2", "0">>

\* urllib.parse.quote(s, safe=safe)
RECURSIVE quote(_, _)
quote(s, safe) ==
    IF s = <<>> THEN <<>>
    ELSE (IF s[1] \in Reserved \ safe THEN PercentCode(s[1]) ELSE <<s[1]>>)
         \o quote(Tail(s), safe)

\* The keys of the parameters, in the order sorted() gives them.
KeyOrder ==
    <<"body", "oauth_callback", "oauth_consumer_key", "oauth_nonce",
      "oauth_signature_method", "oauth_timestamp", "oauth_token",
      "oauth_version", "tags">>

\* The place of a key in the order of strings.
Rank(k) == CHOOSE n \in 1..Len(KeyOrder) : KeyOrder[n] = k

RECURSIVE sorted(_)

\* sorted() leaving the items in insertion order.
unsorted(items) == items

\* sorted(params.items()): the items by ascending key (keys of a dict are
\* distinct, so values are never compared).
sorted(items) ==
    IF items = <<>> THEN <<>>
    ELSE LET m == CHOOSE j \in 1..Len(items) :
                    \A k \in 1..Len(items) : Rank(items[j][1]) <= Rank(items[k][1])
             rest == [k \in 1..(Len(items) - 1) |->
                        IF k < m THEN items[k] ELSE items[k + 1]]
         IN  <<items[m]>> \o sorted(rest)

\* dict.update(e): a key already present keeps its place and takes the new
\* value, a new key is added at the end.
RECURSIVE update(_, _)
update(d, e) ==
    IF e = <<>> THEN d
    ELSE LET item == e[1]
             merged == IF \E k \in 1..Len(d) : d[k][1] = item[1]
                       THEN [k \in 1..Len(d) |->
                               IF d[k][1] = item[1] THEN item ELSE d[k]]
                       ELSE Append(d, item)
         IN  update(merged, Tail(e))

\* "&".join(pieces)
RECURSIVE JoinAmp(_)
JoinAmp(pieces) ==
    IF pieces = <<>> THEN <<>>
    ELSE IF Len(pieces) = 1 THEN pieces[1]
    ELSE pieces[1] \o <<"&">> \o JoinAmp(Tail(pieces))

\* hmac.new(key, msg, hashlib.sha1).digest(), base64-encoded: a value that
\* is the same exactly for the same key and message.
HmacSha1(key, msg) == <<"HMAC-SHA1", key, msg>>

\* TumblrOAuthHelper.create_oauth_signature: signature_base
TumblrOAuthHelper_signature_base(method, url, params) ==
    LET sorted_params == sorted(params)
        param_string ==
            JoinAmp([k \in 1..Len(sorted_params) |->
                       <<sorted_params[k][1], "=">> \o quote(sorted_params[k][2], {})])
    IN  <<method, "&">> \o quote(url, {}) \o <<"&">> \o quote(param_string, {})

\* TumblrOAuthHelper.create_oauth_signature: signing_key
TumblrOAuthHelper_signing_key(consumer_secret, token_secret) ==
    quote(consumer_secret, {}) \o <<"&">> \o quote(token_secret, {})

\* TumblrOAuthHelper.create_oauth_signature(method, url, params, token_secret)
create_oauth_signature(consumer_secret, method, url, params, token_secret) ==
    HmacSha1(TumblrOAuthHelper_signing_key(consumer_secret, token_secret),
             TumblrOAuthHelper_signature_base(method, url, params))

\* TumblrPoster.create_oauth_header: the oauth_params it starts from, with
\* the nonce and the timestamp of the call.
oauth_params(nonce, timestamp) ==
    << <<"oauth_consumer_key", <<"ck">>>>,
       <<"oauth_nonce", nonce>>,
       <<"oauth_signature_method", <<"HMAC-SHA1">>>>,
       <<"oauth_timestamp", timestamp>>,
       <<"oauth_token", <<"tok">>>>,
       <<"oauth_version", <<"1.0">>>> >>

\* TumblrPoster.create_oauth_header: signature_base, quote called with its
\* default safe='/'.
TumblrPoster_signature_base(url, method, all_params) ==
    LET items == sorted(all_params)
        param_string ==
            JoinAmp([k \in 1..Len(items) |->
                       quote(<<items[k][1]>>, {"/"}) \o <<"=">>
                       \o quote(items[k][2], {"/"})])
    IN  <<method, "&">> \o quote(url, {"/"}) \o <<"&">>
        \o quote(param_string, {"/"})

\* TumblrPoster.create_oauth_header: signing_key
TumblrPoster_signing_key(consumer_secret, token_secret) ==
    quote(consumer_secret, {"/"}) \o <<"&">> \o quote(token_secret, {"/"})

\* TumblrPoster.create_oauth_header(url, method, params): the signature it
\* puts into the header.
create_oauth_header(consumer_secret, url, method, params, token_secret, nonce, timestamp) ==
    LET all_params == update(oauth_params(nonce, timestamp), params)
    IN  HmacSha1(TumblrPoster_signing_key(consumer_secret, token_secret),
                 TumblrPoster_signature_base(url, method, all_params))

\* Keys of the request parameters given to the signing routines.
ParamKeys == {"body", "oauth_nonce", "tags"}

\* Values of the request parameters.
ParamValues == {<<"a">>, <<"a", "/", "b", "&", "c">>}

\* The dicts of at most n parameters, in every insertion order.
Dicts(n) ==
    {d \in SeqUpTo(ParamKeys \X ParamValues, n) :
        \A j, k \in 1..Len(d) : j # k => d[j][1] # d[k][1]}

\* The same items inserted in another order.
SameItems(d, e) == Len(d) = Len(e) /\ Range(d) = Range(e)

\* The two signing routines.
Routines == {"create_oauth_signature", "create_oauth_header"}

\* The signature a routine computes for the call.
Signature(c, params) ==
    IF c.routine = "create_oauth_signature"
    THEN create_oauth_signature(c.consumer_secret, c.method, c.url, params,
                                c.token_secret)
    ELSE create_oauth_header(c.consumer_secret, c.url, c.method, params,
                             c.token_secret, c.nonce, c.timestamp)

\* A signing routine is about to be called twice with the same method, url,
\* secrets, nonce and timestamp, and with the same parameters inserted in two
\* orders.
InitSignature ==
    /\ now = 0
    /\ queue = <<>>
    /\ log = <<>>
    /\ tokenFile = NoFile
    /\ run = [r \in Runners |-> IdleRun]
    /\ \E rt \in Routines, d \in Dicts(MaxParams), e \in Dicts(MaxParams),
          ts \in {<<"sec">>, <<"s", "/", "c">>} :
         /\ SameItems(d, e)
         /\ call = [op |-> "sign", routine |-> rt, method |-> "POST",
                    url |-> <<"https", ":", "/", "/", "api", "/", "v2">>,
                    consumer_secret |-> <<"cs", "&">>, token_secret |-> ts,
                    nonce |-> <<"n1">>, timestamp |-> <<"1700000000">>,
                    params |-> d, reordered |-> e]

\* The first call.
SignFirst ==
    /\ call.op = "sign"
    /\ call' = [call EXCEPT !.op = "signed"] @@
               [signature |-> Signature(call, call.params)]
    /\ UNCHANGED <<now, queue, log, tokenFile, run>>

\* The second call, with the parameters in the other insertion order.
SignSecond ==
    /\ call.op = "signed"
    /\ call' = [call EXCEPT !.op = "signed twice"] @@
               [signature2 |-> Signature(call, call.reordered)]
    /\ UNCHANGED <<now, queue, log, tokenFile, run>>

NextSignature == SignFirst \/ SignSecond

SpecSignature == InitSignature /\ [][NextSignature]_vars

\* The url of a request: the request-token endpoint, or the post endpoint
\* of the blog.
Urls ==
    {<<"https", ":", "/", "/", "www.tumblr.com", "/", "oauth", "/", "request_token">>,
     <<"https", ":", "/", "/", "api.tumblr.com", "/", "v2", "/", "blog", "/",
       "post">>}

\* Both signing routines are about to be given the same method, url and
\* secrets and the same parameters: the oauth_ parameters of one nonce and
\* timestamp, and the parameters of a request.
InitBaseString ==
    /\ now = 0
    /\ queue = <<>>
    /\ log = <<>>
    /\ tokenFile = NoFile
    /\ run = [r \in Runners |-> IdleRun]
    /\ \E u \in Urls, d \in Dicts(MaxParams),
          ts \in {<<>>, <<"sec">>, <<"s", "/", "c">>} :
         call = [op |-> "build", method |-> "POST", url |-> u,
                 consumer_secret |-> <<"cs", "&">>, token_secret |-> ts,
                 nonce |-> <<"n1">>, timestamp |-> <<"1700000000">>,
                 params |-> d]

\* create_oauth_signature up to its signing key, given the merged parameters.
BuildHelper ==
    /\ call.op = "build"
    /\ LET all_params == update(oauth_params(call.nonce, call.timestamp), call.params)
       IN  call' = [call EXCEPT !.op = "helper built"] @@
                   [helper_base |-> TumblrOAuthHelper_signature_base(
                                        call.method, call.url, all_params),
                    helper_key |-> TumblrOAuthHelper_signing_key(
                                        call.consumer_secret, call.token_secret)]
    /\ UNCHANGED <<now, queue, log, tokenFile, run>>

\* create_oauth_header up to its signing key.
BuildPoster ==
    /\ call.op = "helper built"
    /\ LET all_params == update(oauth_params(call.nonce, call.timestamp), call.params)
       IN  call' = [call EXCEPT !.op = "built"] @@
                   [poster_base |-> TumblrPoster_signature_base(
                                        call.url, call.method, all_params),
                    poster_key |-> TumblrPoster_signing_key(
                                        call.consumer_secret, call.token_secret)]
    /\ UNCHANGED <<now, queue, log, tokenFile, run>>

NextBaseString == BuildHelper \/ BuildPoster

SpecBaseString == InitBaseString /\ [][NextBaseString]_vars

\* ------------------------------------------------------------- properties

\* The rows of a queue that are pending and scheduled no later than t.
DueAt(rows, t) ==
    {k \in 1..Len(rows) :
        rows[k].posted = "False" /\ strptime(rows[k].scheduled_time) <= t}

\* The publish requests among the exchanges a run remembers.
PublishRequests(R) == {e \in 1..Len(R.sent) : R.sent[e].kind = "publish"}

\* The run is inside the loop over posts_to_publish, or past it.
InBatch(R) == R.pc \in {"post", "refresh401", "retry", "save"}

\* C1: in every reachable queue file, a row has posted = 'True' if and only
\* if its tumblr_post_id is non-empty and its posted_time is set.
C1_PostedIffIdAndTime ==
    \A k \in 1..Len(queue) :
        (queue[k].posted = "True")
            <=> (queue[k].tumblr_post_id # "" /\ queue[k].posted_time # <<>>)

\* C2: a run selects exactly the loaded rows that are pending and scheduled
\* no later than its current time, keeps them in file order, and every
\* publish request it sends is for the selected row the loop stands at.
C2_SelectsExactlyDueInOrder ==
    \A r \in Runners :
        LET R == run[r]
            p == R.posts_to_publish
            at == IF R.pc \in {"refresh401", "retry"} THEN R.i ELSE R.i - 1
        IN  /\ Range(p) = DueAt(R.loaded, R.current_time)
            /\ \A a, b \in 1..Len(p) : a < b => p[a] < p[b]
            /\ \A e \in PublishRequests(R) :
                 at \in 1..Len(p) /\ R.sent[e].idx = p[at]

\* C2 witness: a run has processed two selected rows.
C2_Witness ==
    \E r \in Runners :
        /\ run[r].pc = "save"
        /\ Len(run[r].posts_to_publish) = 2

\* C3: a row saved with posted = 'True' stays in the file with all its fields
\* unchanged, a row only ever changes from pending to posted, and no run
\* sends a publish request for a row the file holds as posted.
C3_PublishedIsTerminal ==
    [][/\ \A k \in 1..Len(queue) :
            /\ k <= Len(queue')
            /\ \/ queue'[k] = queue[k]
               \/ queue[k].posted = "False" /\ queue'[k].posted = "True"
       /\ \A r \in Runners :
            InBatch(run'[r]) =>
                \A e \in PublishRequests(run'[r]) :
                    queue'[run'[r].sent[e].idx].posted = "False"]_vars

\* C3 witness: a later run has loaded a row saved as posted and has ended.
C3_Witness ==
    \E r \in Runners :
        /\ run[r].pc = "done"
        /\ \E k \in 1..Len(run[r].loaded) :
            run[r].loaded[k].posted = "True" /\ queue[k] = run[r].loaded[k]

\* C4: a run that finds no due row sends no publish request, appends no
\* audit row, never enters the loop, writes nothing, and ends with the
\* queue file as it loaded it.
C4_NoDueNoEffect ==
    \A r \in Runners :
        LET R == run[r] IN
        (R.pc # "idle" /\ DueAt(R.loaded, R.current_time) = {}) =>
            /\ PublishRequests(R) = {}
            /\ Len(log) = R.log_start
            /\ R.writes = 0
            /\ ~InBatch(R)
            /\ (R.pc = "done" /\ R.loaded # <<>>) => queue = R.loaded

\* C4 witness: a run ended after loading a queue whose rows are all posted.
C4_Witness ==
    \E r \in Runners :
        /\ run[r].pc = "done"
        /\ run[r].loaded # <<>>
        /\ \A k \in 1..Len(run[r].loaded) : run[r].loaded[k].posted = "True"

\* The run has finished the loop body for a row and has not sent the
\* request for the next one: sent holds the exchanges of the row at i - 1.
RowFinished(R) ==
    /\ R.pc \in {"post", "save", "done"}
    /\ R.sent # <<>>
    /\ R.sent[1].kind = "publish"

\* The position in pending_posts of the row a run finished last.
FinishedRow(R) == R.posts_to_publish[R.i - 1]

\* The row has all its publication fields empty.
Pending(post) ==
    post.posted = "False" /\ post.posted_time = <<>> /\ post.tumblr_post_id = ""

\* The last audit row is a failure row for the given post, with an error text.
LastRowIsFailureOf(post) ==
    /\ log # <<>>
    /\ Last(log).id = post.id
    /\ Last(log).success = FALSE
    /\ Last(log).error # <<>>

\* C5: when the last request for a row ends in a failure status other than
\* 401 or in a transport error, the row is left pending, a failure row with
\* the error is appended to the audit log, and the loop goes on: it stands
\* at the next selected row, and reaches the final save only after every
\* selected row was attempted, with one audit row each.
C5_FailureLeavesPendingAndContinues ==
    \A r \in Runners :
        LET R == run[r]
            p == R.posts_to_publish
        IN  /\ (RowFinished(R) /\ Last(R.sent).status \notin {201, 401}) =>
                /\ Pending(R.pending_posts[FinishedRow(R)])
                /\ LastRowIsFailureOf(R.pending_posts[FinishedRow(R)])
                /\ R.pc = "post" <=> R.i <= Len(p)
            /\ R.pc = "save" => (R.i = Len(p) + 1 /\ Len(log) = R.log_start + Len(p))

\* C5 witness: the first of two selected rows failed with a server error or
\* a transport error and the second was published.
C5_Witness ==
    \E r \in Runners :
        /\ run[r].pc = "save"
        /\ Len(run[r].posts_to_publish) = 2
        /\ log[run[r].log_start + 1].success = FALSE
        /\ log[run[r].log_start + 1].error \in {<<"API Error", 500>>, <<"Exception">>}
        /\ log[run[r].log_start + 2].success = TRUE

\* C6: in the OAuth2 scripts a row gets at most two publish requests and at
\* most one refresh request per run; a 401 on the first request is followed
\* by exactly one refresh, a successful refresh by exactly one retry of the
\* same row, and nothing follows the retry; when the refresh fails or the
\* retry fails the row is left pending with a failure row in the audit log.
C6_OneRefreshOneRetry ==
    \A r \in Runners :
        LET R == run[r]
            s == R.sent
            n == Len(s)
            done == RowFinished(R)
        IN  (R.variant # "oauth1" /\ n > 0 /\ s[1].kind = "publish") =>
            /\ n <= 3
            /\ s[1].status # 401 => n = 1
            /\ s[1].status = 401 =>
                /\ R.pc = "refresh401" <=> n = 1
                /\ n >= 2 => (s[2].kind = "refresh" /\ s[2].idx = s[1].idx)
                /\ R.pc = "retry" <=> (n = 2 /\ s[2].status = 200)
                /\ n = 3 => /\ s[2].status = 200
                            /\ s[3].kind = "publish"
                            /\ s[3].idx = s[1].idx
                /\ (done /\ (n = 2 \/ s[n].status # 201)) =>
                    /\ Pending(R.pending_posts[FinishedRow(R)])
                    /\ LastRowIsFailureOf(R.pending_posts[FinishedRow(R)])

\* C6 witness: a 401, a successful refresh, and a retry that failed.
C6_Witness ==
    \E r \in Runners :
        /\ RowFinished(run[r])
        /\ Len(run[r].sent) = 3
        /\ run[r].sent[1].status = 401
        /\ run[r].sent[3].status \notin {201, 401}

\* C7: after a 401, a successful refresh and a successful retry, the row is
\* posted, and the run has appended exactly one audit row for it, a success
\* row: the audit log holds one row per row finished in this run.
C7_RetrySuccessOneAuditRow ==
    \A r \in Runners :
        LET R == run[r]
            s == R.sent
        IN  (/\ RowFinished(R)
             /\ Len(s) = 3
             /\ s[1].status = 401 /\ s[2].status = 200 /\ s[3].status = 201) =>
            /\ R.pending_posts[FinishedRow(R)].posted = "True"
            /\ R.pending_posts[FinishedRow(R)].posted_time # <<>>
            /\ Len(log) = R.log_start + R.i - 1
            /\ Last(log).id = R.pending_posts[FinishedRow(R)].id
            /\ Last(log).success = TRUE

\* C7 witness: the only selected row of a run was published on the retry.
C7_Witness ==
    \E r \in Runners :
        /\ run[r].pc = "save"
        /\ Len(run[r].posts_to_publish) = 1
        /\ Len(run[r].sent) = 3
        /\ run[r].sent[1].status = 401
        /\ run[r].sent[3].status = 201

\* The stored record expires more than one hour after t.
ExpiresMoreThanOneHourAfter(file, t) ==
    /\ file.exists
    /\ "expires_at" \in DOMAIN file.data
    /\ fromisoformat(file.data.expires_at) > t + OneHour

\* The step in which run r sends a request to the token endpoint.
TokenRequestBy(r) ==
    /\ Len(run'[r].sent) = Len(run[r].sent) + 1
    /\ Last(run'[r].sent).kind \in {"refresh", "exchange"}

\* C8: when get_access_token finds a stored record that expires more than
\* one hour after now, the poster holds the stored access_token, the run goes
\* on without any request to the token endpoint, and the token file is the
\* same after the call.
C8_FreshStoredTokenReturned ==
    [][\A r \in Runners :
        (run[r].pc = "ctor" /\ run'[r].pc # "ctor"
         /\ ExpiresMoreThanOneHourAfter(tokenFile, now)) =>
            /\ run'[r].access_token = tokenFile.data.access_token
            /\ run'[r].pc \in {"load", "test"}
            /\ run'[r].sent = run[r].sent
            /\ tokenFile' = tokenFile]_vars

\* C8 witness: an OAuth2 run holds the stored token of a record with more
\* than one hour left and has sent nothing.
C8_Witness ==
    \E r \in Runners :
        /\ run[r].variant # "oauth1"
        /\ run[r].pc \in {"load", "test"}
        /\ run[r].sent = <<>>
        /\ ExpiresMoreThanOneHourAfter(tokenFile, now)
        /\ run[r].access_token = tokenFile.data.access_token

\* C9: a token request answered with 200 leaves a token record holding the
\* access_token of the response and expires_at = now + expires_in (the
\* default when the response has none), the poster holds that access_token,
\* and after a refresh whose response has no refresh_token the record holds
\* the refresh token stored before.
C9_ExchangeOverwritesRecord ==
    [][\A r \in Runners :
        (TokenRequestBy(r) /\ Last(run'[r].sent).status = 200) =>
            LET e == Last(run'[r].sent)
                b == e.body
                expires_in == IF "expires_in" \in DOMAIN b THEN b.expires_in
                              ELSE DefaultExpiresIn
            IN  /\ tokenFile'.exists
                /\ tokenFile'.data.access_token = b.access_token
                /\ tokenFile'.data.expires_at = isoformat(now + expires_in)
                /\ run'[r].access_token = b.access_token
                /\ (e.kind = "refresh" /\ "refresh_token" \notin DOMAIN b) =>
                       tokenFile'.data.refresh_token = tokenFile.data.refresh_token
       ]_vars

\* C9 witness: a refresh answered with 200 and no refresh_token replaced the
\* stored access_token and kept the stored refresh token.
C9_Witness ==
    \E r \in Runners :
        /\ run[r].sent # <<>>
        /\ Last(run[r].sent).kind = "refresh"
        /\ Last(run[r].sent).status = 200
        /\ "refresh_token" \notin DOMAIN Last(run[r].sent).body
        /\ tokenFile.data.refresh_token \in RefreshTokens
        /\ tokenFile.data.access_token = Last(run[r].sent).body.access_token
        /\ run[r].access_token = tokenFile.data.access_token

\* C10: a token request answered with another status than 200, or raising,
\* leaves the token file as it was and yields no token: in get_access_token
\* and in the code exchange the poster holds none and the run goes to the
\* code exchange or returns; in the 401 path the poster keeps the token it
\* had, nothing is retried and the row is recorded as failed.
C10_FailedExchangeLeavesRecord ==
    [][\A r \in Runners :
        (TokenRequestBy(r) /\ Last(run'[r].sent).status # 200) =>
            /\ tokenFile' = tokenFile
            /\ Last(run'[r].sent).idx = 0 =>
                   /\ run'[r].access_token = None
                   /\ run'[r].pc \in {"exchange", "done"}
            /\ Last(run'[r].sent).idx # 0 =>
                   /\ run'[r].access_token = run[r].access_token
                   /\ run'[r].pc \in {"post", "save"}
                   /\ Len(log') = Len(log) + 1
                   /\ Last(log').success = FALSE]_vars

\* C10 witness: a code exchange failed while a token record was stored; the
\* run has ended without a token.
C10_Witness ==
    \E r \in Runners :
        /\ run[r].pc = "done"
        /\ run[r].sent # <<>>
        /\ Last(run[r].sent).kind = "exchange"
        /\ Last(run[r].sent).status # 200
        /\ run[r].access_token = None
        /\ tokenFile.exists

\* The stored record carries a refresh token (the key, with a value).
RefreshTokenPresent(file) ==
    /\ file.exists
    /\ "refresh_token" \in DOMAIN file.data
    /\ file.data.refresh_token # None

\* The step in which run r sends the authorization code to the token endpoint.
CodeExchangeBy(r) == TokenRequestBy(r) /\ Last(run'[r].sent).kind = "exchange"

\* C11 as stated: the authorization code is exchanged only when the stored
\* record is not fresh and holds no refresh token.
C11_CodeOnlyWithoutRefreshToken ==
    [][\A r \in Runners :
        CodeExchangeBy(r) =>
            /\ ~ExpiresMoreThanOneHourAfter(tokenFile, now)
            /\ ~RefreshTokenPresent(tokenFile)]_vars

\* C11, amended: a stored token with more than one hour left is used first,
\* with no request; otherwise a refresh token that is present is sent for a
\* refresh; the authorization code is exchanged only when the stored record
\* is not fresh and either holds no refresh_token key or the refresh just
\* failed; a run leaves the resolution with a token, or with none
\* (NoCredential) and then returns.
C11_ResolutionPriority ==
    [][\A r \in Runners :
        LET R == run[r]
            Q == run'[r]
            fresh == ExpiresMoreThanOneHourAfter(tokenFile, now)
        IN  /\ (R.pc = "ctor" /\ Q.pc # "ctor") =>
                /\ fresh =>
                    /\ Q.access_token = tokenFile.data.access_token
                    /\ Q.sent = R.sent
                    /\ Q.pc \in {"load", "test"}
                /\ (~fresh /\ RefreshTokenPresent(tokenFile)) =>
                    /\ Q.pc = "ctor_refresh"
                    /\ Q.refresh_arg = tokenFile.data.refresh_token
                /\ (~fresh /\ ~HasRefreshToken(tokenFile)) =>
                    /\ Q.access_token = None
                    /\ Q.pc = IF R.auth_code THEN "exchange" ELSE "done"
            /\ (R.pc = "ctor_refresh" /\ Q.pc # "ctor_refresh") =>
                /\ TokenRequestBy(r)
                /\ Last(Q.sent).kind = "refresh"
                /\ Last(Q.sent).arg = R.refresh_arg
            /\ CodeExchangeBy(r) =>
                /\ R.auth_code
                /\ ~fresh
                /\ \/ ~HasRefreshToken(tokenFile)
                   \/ /\ R.sent # <<>>
                      /\ Last(R.sent).kind = "refresh"
                      /\ Last(R.sent).status # 200
            /\ (R.pc \in {"ctor", "ctor_refresh", "exchange"}
                /\ Q.pc \in {"load", "test", "done"}) =>
                (Q.access_token = None <=> Q.pc = "done")]_vars

\* C11 witness: the authorization code was exchanged after the refresh of a
\* stored refresh token failed, and gave the run a token.
C11_Witness ==
    \E r \in Runners :
        /\ run[r].pc \in {"load", "test"}
        /\ Len(run[r].sent) = 2
        /\ run[r].sent[1].kind = "refresh"
        /\ run[r].sent[1].arg # None
        /\ run[r].sent[1].status # 200
        /\ run[r].sent[2].kind = "exchange"
        /\ run[r].access_token # None

\* Run R has ended where the token file is missing and no authorization code
\* was supplied: no token, and no request of any kind.
EndedWithoutCredential(R) ==
    /\ R.variant # "oauth1"
    /\ R.pc = "done"
    /\ R.access_token = None
    /\ R.sent = <<>>
    /\ ~tokenFile.exists

\* C12: a run that ends with the token file missing and no authorization
\* code has no token, has sent no publish request, has marked no row, and
\* its report names every due row as failed.
C12_NoCredentialReportsDueRows ==
    \A r \in Runners :
        EndedWithoutCredential(run[r]) =>
            /\ PublishRequests(run[r]) = {}
            /\ run[r].writes = 0
            /\ Len(log) = run[r].log_start
            /\ \A k \in DueAt(queue, now) :
                /\ run[r].reported
                /\ \E n \in 1..Len(run[r].post_details) :
                     run[r].post_details[n] = Detail(k, FALSE)

\* The last request of run R was the refresh after a 401, and it failed:
\* the credential could not be resolved inside the batch.
RefreshFailedInBatch(R) ==
    /\ R.sent # <<>>
    /\ Last(R.sent).kind = "refresh"
    /\ Last(R.sent).idx # 0
    /\ Last(R.sent).status # 200

\* C13: once the refresh after a 401 has failed, the batch is over: the run
\* stands at the final save or after it, and the row of the failed refresh and
\* every selected row after it are reported as failed and left unpublished.
C13_FailedRefreshStopsBatch ==
    \A r \in Runners :
        LET R == run[r]
            p == R.posts_to_publish
        IN  RefreshFailedInBatch(R) =>
            /\ R.pc \in {"save", "done"}
            /\ \A n \in 1..Len(p) :
                p[n] >= Last(R.sent).idx =>
                    /\ R.pending_posts[p[n]].posted = "False"
                    /\ \E m \in 1..Len(R.post_details) :
                         R.post_details[m] = Detail(p[n], FALSE)

\* The step in which the credential resolution hands run r an access token:
\* get_access_token or the code exchange ends with one, or the refresh of the
\* 401 path does.
TokenReturnedTo(r) ==
    \/ /\ run[r].pc \in {"ctor", "ctor_refresh", "exchange"}
       /\ run'[r].pc \in {"load", "test"}
    \/ /\ run[r].pc = "refresh401"
       /\ run'[r].pc = "retry"

\* C14: at the moment a token is returned, by the stored-token path, by a
\* refresh or by the code exchange, it is the token of the stored record and
\* the expires_at of that record is later than now.
C14_ReturnedTokenNotExpired ==
    [][\A r \in Runners :
        TokenReturnedTo(r) =>
            /\ tokenFile'.exists
            /\ run'[r].access_token = tokenFile'.data.access_token
            /\ "expires_at" \in DOMAIN tokenFile'.data
            /\ fromisoformat(tokenFile'.data.expires_at) > now']_vars

\* The rows of the queue file as run R has them at its end: the rows in
\* memory when it loaded the file, the rows of the file otherwise.
RowsAtEnd(R) == IF R.loaded # <<>> THEN R.pending_posts ELSE queue

\* The time at which run R looked, or would have looked, for due rows.
SelectionTime(R) == IF R.loaded # <<>> THEN R.current_time ELSE now

\* C15: when a run ends, every row that was due and that the run has not
\* published has a failure row with an error text among the audit rows the
\* run appended.
C15_UnpublishedDueRowsLogged ==
    [][\A r \in Runners :
        (run[r].pc # "done" /\ run'[r].pc = "done") =>
            LET Q == run'[r]
                rows == RowsAtEnd(Q)
            IN  \A k \in DueAt(queue, SelectionTime(Q)) :
                    \/ rows[k].posted = "True"
                    \/ \E n \in (Q.log_start + 1)..Len(log') :
                        /\ log'[n].id = rows[k].id
                        /\ log'[n].success = FALSE
                        /\ log'[n].error # <<>>]_vars

\* The step in which run r ends the attempt for one selected row.
AttemptEndedBy(r) ==
    Len(run'[r].post_details) = Len(run[r].post_details) + 1

\* C16: every step leaves the audit log a prefix of the new one, and appends
\* a row exactly when a run ends the attempt for a row: one row, of that row.
C16_AuditLogAppendOnly ==
    [][/\ Len(log') >= Len(log)
       /\ SubSeq(log', 1, Len(log)) = log
       /\ Len(log') <= Len(log) + 1
       /\ Len(log') = Len(log) + 1 <=> \E r \in Runners : AttemptEndedBy(r)
       /\ \A r \in Runners :
            AttemptEndedBy(r) =>
                /\ Last(log').id = run[r].pending_posts[Last(run'[r].post_details).url].id
                /\ Last(log').success = (Last(run'[r].post_details).status = "Success")
      ]_vars

\* C16 witness: the only row of the queue failed in one run and was attempted
\* again in a later run; the audit log holds a row for each attempt.
C16_Witness ==
    /\ Len(queue) = 1
    /\ Len(log) = 2
    /\ log[1].id = queue[1].id /\ log[2].id = queue[1].id
    /\ log[1].success = FALSE
    /\ \E r \in Runners : run[r].pc = "save" /\ run[r].log_start = 1

\* The step in which run r rewrites the queue file.
QueueWrittenBy(r) ==
    /\ run[r].pc = "save"
    /\ run'[r].writes = run[r].writes + 1

\* C17: each run loads the whole queue file and its save rewrites the whole
\* file from the rows it holds in memory, whatever the file holds by then:
\* after the save every row the run did not select is as the run loaded it,
\* so the marks another run saved in between are gone.
C17_LaterSaveOverwrites ==
    [][\A r \in Runners :
        /\ (run[r].pc = "load" /\ run'[r].pc # "load") =>
              run'[r].loaded = queue
        /\ QueueWrittenBy(r) =>
              /\ queue' = run[r].pending_posts
              /\ \A k \in 1..Len(queue') :
                    k \notin Range(run[r].posts_to_publish) =>
                        queue'[k] = run[r].loaded[k]
              /\ \A k \in Range(run[r].posts_to_publish) :
                    queue'[k].posted = "False" => queue'[k] = run[r].loaded[k]
      ]_vars

\* C17 witness: two runs loaded the same due row and both sent it to the
\* platform; the first published it and saved, the second failed and saved
\* last: the row is pending in the file although the audit log holds its
\* success row.
C17_Witness ==
    /\ Len(queue) = 1
    /\ run[1].pc = "done" /\ run[2].pc = "done"
    /\ run[1].writes = 1 /\ run[2].writes = 1
    /\ PublishRequests(run[1]) # {} /\ PublishRequests(run[2]) # {}
    /\ run[1].pending_posts[1].posted = "True"
    /\ queue[1].posted = "False"
    /\ \E n \in 1..Len(log) : log[n].id = queue[1].id /\ log[n].success = TRUE

\* C18: no two rows of the queue file have the same id.
C18_QueueIdsUnique ==
    \A j, k \in 1..Len(queue) : j # k => queue[j].id # queue[k].id

\* No tag of the list contains a comma.
NoCommas(tags) ==
    \A k \in 1..Len(tags) : \A j \in 1..Len(tags[k]) : tags[k][j] # "COMMA"

\* C19: a row written to the queue file and read back has the post_content
\* and the tags cell it was written with, and the tags parsed from it are the
\* tag list written, for every tag list whose tags contain no comma.
C19_QueueRoundTrip ==
    call.op = "read" =>
        /\ call.row.post_content = call.post_content
        /\ call.row.tags = join(call.tags)
        /\ NoCommas(call.tags) => call.parsed = call.tags

\* C20: two calls of a signing routine with the same method, url, secrets,
\* nonce and timestamp and the same parameters give the same signature, in
\* whatever order the parameters were inserted.
C20_SignatureIgnoresInsertionOrder ==
    call.op = "signed twice" => call.signature2 = call.signature

\* C20 witness: both calls were made with two parameters inserted in
\* opposite orders.
C20_Witness ==
    /\ call.op = "signed twice"
    /\ Len(call.params) = 2
    /\ call.reordered # call.params

\* The rows run R has published: the selected rows it marked in memory.
PublishedBy(R) ==
    {k \in Range(R.posts_to_publish) : R.pending_posts[k].posted = "True"}

C22_AbortLeavesQueueAsLoaded ==
    \A r \in Runners :
        LET R == run[r] IN
        R.pc = "aborted" =>
            /\ queue = R.loaded
            /\ R.writes = 0
            /\ Len(log) = R.log_start + Len(R.post_details)
            /\ \A n \in 1..Len(R.post_details) :
                /\ log[R.log_start + n].id = R.loaded[R.post_details[n].url].id
                /\ log[R.log_start + n].success
                     = (R.post_details[n].status = "Success")

\* C22 witness: the error came after the first of two selected rows was
\* published; its success row is in the audit log and the file holds the
\* row as pending.
C22_Witness ==
    \E r \in Runners :
        /\ run[r].pc = "aborted"
        /\ Len(run[r].posts_to_publish) = 2
        /\ Len(run[r].post_details) = 1
        /\ run[r].pending_posts[run[r].posts_to_publish[1]].posted = "True"
        /\ queue[run[r].posts_to_publish[1]].posted = "False"
        /\ Last(log).success = TRUE

\* The pending rows whose scheduled_time is no time.
Malformed(rows) ==
    {k \in 1..Len(rows) :
        rows[k].posted = "False" /\ ~ParsesAsTime(rows[k].scheduled_time)}

\* The pending rows whose scheduled_time is a time no later than t.
WellFormedDueAt(rows, t) ==
    {k \in 1..Len(rows) :
        /\ rows[k].posted = "False"
        /\ ParsesAsTime(rows[k].scheduled_time)
        /\ strptime(rows[k].scheduled_time) <= t}

\* C23: a run of any of the three scripts that loaded a queue with a
\* malformed pending row is not ended by it: it selects the other due rows,
\* and the malformed row stays in the queue file as it was.
C23_MalformedRowSkipped ==
    \A r \in Runners :
        LET R == run[r] IN
        (R.pc \notin {"idle", "ctor", "ctor_refresh", "exchange", "test", "load"}
         /\ Malformed(R.loaded) # {}) =>
            /\ R.pc # "aborted"
            /\ Range(R.posts_to_publish) = WellFormedDueAt(R.loaded, R.current_time)
            /\ \A k \in Malformed(R.loaded) :
                /\ R.pending_posts[k] = R.loaded[k]
                /\ queue[k] = R.loaded[k]

\* The text holds none of the reserved characters a percent-encoding
\* escapes, apart from the separators '&' and the '%' of the escapes.
Escaped(text) ==
    \A k \in 1..Len(text) : text[k] \notin (Reserved \ {"&", "%"})

\* C24: for the same method, url, parameters and secrets the two signing
\* routines build the same base string and the same signing key, and in
\* both every reserved character of the url, of the keys and values and of
\* the secrets is percent-encoded: no '/' and no ':' is left.
C24_BaseStringsEncodedAlike ==
    call.op = "built" =>
        /\ call.poster_base = call.helper_base
        /\ call.poster_key = call.helper_key
        /\ Escaped(call.helper_base) /\ Escaped(call.helper_key)
        /\ Escaped(call.poster_base) /\ Escaped(call.poster_key)

\* The audit rows that record a successful publication of the post with
\* the given id.
SuccessRows(id) == {n \in 1..Len(log) : log[n].id = id /\ log[n].success}

\* C25: no entry of the queue is published successfully more than once: the
\* audit log holds at most one success row for a row of the queue file (rows
\* being told apart by their ids).
C25_PublishedAtMostOnce ==
    \A k \in 1..Len(queue) :
        (\A j \in 1..Len(queue) : j # k => queue[j].id # queue[k].id) =>
            Cardinality(SuccessRows(queue[k].id)) <= 1

\* C26: no step removes an entry from the queue file: every row of the file
\* is at its place afterwards, with its id, whenever the generation run
\* appended it.
C26_NoEntryLost ==
    [][\A k \in 1..Len(queue) :
        /\ k <= Len(queue')
        /\ queue'[k].id = queue[k].id]_vars

\* Row k of the queue file is pending and due now.
DuePending(k) == k \in DueAt(queue, now)

\* Row k is marked posted: in the queue file, or by the run that holds it.
MarkedPosted(k) ==
    /\ k <= Len(queue)
    /\ \/ queue[k].posted = "True"
       \/ \E r \in Runners :
            /\ k <= Len(run[r].pending_posts)
            /\ run[r].pending_posts[k].posted = "True"

\* C27: every run selects each row that is pending and due, however often
\* it failed before, and a row that is pending and due is eventually marked
\* posted when runs keep being triggered and the platform does not reject
\* its request for ever.
C27_DueRowEventuallyPosted ==
    /\ [][\A r \in Runners :
            (run[r].pc = "load" /\ run'[r].pc # "load") =>
                Range(run'[r].posts_to_publish) = DueAt(queue, now)]_vars
    /\ \A k \in 1..MaxQueue : DuePending(k) ~> MarkedPosted(k)

\* C27 witness: a row failed in one run and was published by a later run.
C27_Witness ==
    /\ Len(log) = 2
    /\ log[1].success = FALSE
    /\ log[2].success = TRUE
    /\ log[2].id = log[1].id
    /\ \E k \in 1..Len(queue) : queue[k].id = log[1].id /\ queue[k].posted = "True"

\* The step in which run r gets the answer to a publish request.
PublishAnsweredTo(r) ==
    /\ Len(run'[r].sent) > 0
    /\ run'[r].sent # run[r].sent
    /\ Last(run'[r].sent).kind = "publish"

C29_MemoryTokenIsStoredToken ==
    \A r \in Runners :
        (/\ run[r].variant # "oauth1"
         /\ run[r].access_token # None
         /\ tokenFile.exists) =>
            run[r].access_token = tokenFile.data.access_token

\* C29 witness: after a 401 the refresh failed; the poster still holds the
\* token it loaded, which is the token of the stored record.
C29_Witness ==
    \E r \in Runners :
        /\ run[r].variant # "oauth1"
        /\ RefreshFailedInBatch(run[r])
        /\ run[r].access_token # None
        /\ tokenFile.exists
        /\ run[r].access_token = tokenFile.data.access_token

\* C30: every refresh request a run sends, from get_access_token or from
\* the 401 path, carries a refresh token: the argument of
\* refresh_access_token is never None.
C30_RefreshOnlyWithRefreshToken ==
    [][\A r \in Runners :
        (TokenRequestBy(r) /\ Last(run'[r].sent).kind = "refresh") =>
            Last(run'[r].sent).arg # None]_vars
====
